---- MODULE Spec2Model ----
(***************************************************************************)
(* Model of the `ImplNew` derive macro (src/src/lib.rs).                   *)
(*                                                                         *)
(* One invocation of derive_impl_new is a straight-line pass over one     *)
(* parsed declaration (syn::DeriveInput).  The declaration is the input;   *)
(* the local variables of the function are the state; every block of the   *)
(* function is one action.  Token streams are sequences of strings, one    *)
(* string per token.                                                       *)
(***************************************************************************)
EXTENDS Naturals, Sequences, FiniteSets

\* ------------------------------------------------------------------ bounds

\* Largest number of fields of a declaration.
MaxFields == 3
\* Largest number of attributes attached to the fields of one declaration.
MaxAttrs == 2
\* Largest number of generic parameters of a declaration.
MaxGenerics == 2

\* ------------------------------------------------------- token vocabulary

\* Field identifiers and declared types, by position in the declaration
\* (the host language guarantees the identifiers are pairwise distinct).
FieldNames == <<"a", "b", "c", "d", "e", "f">>
FieldTypes == <<"i32", "String", "bool", "u8", "f64", "char">>

\* Identifiers of generic parameters, by position.
LifetimeNames == <<"'a", "'b", "'c", "'d">>
TypeParamNames == <<"T", "U", "V", "W">>
ConstParamNames == <<"N", "M", "K", "L">>

\* Literals of the expression language the attribute arguments are drawn from.
Literals == {"1", "2"}

\* ------------------------------------------------------------ helpers

Min(S) == CHOOSE x \in S : \A y \in S : x <= y

SeqsUpTo(S, n) == UNION {[1..k -> S] : k \in 0..n}

RECURSIVE Separated(_, _)
\* quote!'s `#( ... ),*`: the items' tokens with `sep` between consecutive
\* items; nothing before the first, nothing after the last, nothing at all
\* for an empty repetition.
Separated(items, sep) ==
    IF items = <<>> THEN <<>>
    ELSE IF Len(items) = 1 THEN items[1]
    ELSE items[1] \o <<sep>> \o Separated(Tail(items), sep)

\* ------------------------------------------------ the parsed declaration

\* syn::Visibility of a field: only `pub` is Visibility::Public; `pub(crate)`
\* is Visibility::Restricted and no keyword is Visibility::Inherited.
Visibilities == {"pub", "pub(crate)", "inherited"}

\* The attributes a field may carry: #[default(1)], #[default(2 + 1)],
\* #[default(1 +)] (its argument is no expression) and #[serde(2)] (another
\* attribute, whose argument would parse).
AttrChoices ==
    { [path |-> "default", args |-> <<"1">>],
      [path |-> "default", args |-> <<"2", "+", "1">>],
      [path |-> "default", args |-> <<"1", "+">>],
      [path |-> "serde", args |-> <<"2">>] }

\* The attributes of field i, when the declaration's attributes are s and
\* attribute j is attached to field o[j] (o is non-decreasing).
AttrsOf(s, o, i) ==
    LET idx == {j \in 1..Len(s) : o[j] = i}
    IN  [m \in 1..Cardinality(idx) |-> s[Min(idx) + m - 1]]

Owners(n, k) == {o \in [1..k -> 1..n] : \A j \in 1..(k - 1) : o[j] <= o[j + 1]}

\* The list of m named fields of visibilities v that carry the attributes s,
\* attribute j on field o[j].
FieldList(m, v, s, o) ==
    [i \in 1..m |-> [ident |-> FieldNames[i], ty |-> FieldTypes[i],
                     vis |-> v[i], attrs |-> AttrsOf(s, o, i)]]

\* The shapes a generic parameter may have: 'a, 'a: 'static, T, T: Clone,
\* T = i32, const N: usize, const N: usize = 3.
ParamShapes ==
    { [kind |-> "lifetime", colon |-> <<>>, default |-> <<>>],
      [kind |-> "lifetime", colon |-> <<"'static">>, default |-> <<>>],
      [kind |-> "type", colon |-> <<>>, default |-> <<>>],
      [kind |-> "type", colon |-> <<"Clone">>, default |-> <<>>],
      [kind |-> "type", colon |-> <<>>, default |-> <<"i32">>],
      [kind |-> "const", colon |-> <<"usize">>, default |-> <<>>],
      [kind |-> "const", colon |-> <<"usize">>, default |-> <<"3">>] }

ParamName(kind, i) ==
    CASE kind = "lifetime" -> LifetimeNames[i]
      [] kind = "type" -> TypeParamNames[i]
      [] kind = "const" -> ConstParamNames[i]

\* The generic parameter lists of at most n parameters.  A declaration the
\* host compiler accepts lists its lifetimes before its types and constants.
ParamLists(n) ==
    { [i \in DOMAIN g |-> [kind |-> g[i].kind, ident |-> ParamName(g[i].kind, i),
                           colon |-> g[i].colon, default |-> g[i].default]]
      : g \in { h \in SeqsUpTo(ParamShapes, n) :
                  \A i, j \in DOMAIN h :
                      (i < j /\ h[j].kind = "lifetime") => h[i].kind = "lifetime" } }

WhereClauses == { <<>>, <<"where", "String", ":", "Default">> }

NoGenerics == [params |-> <<>>, where_clause |-> <<>>]

GenericsOfT ==
    [params |-> << [kind |-> "type", ident |-> "T", colon |-> <<"Clone">>,
                    default |-> <<>>] >>,
     where_clause |-> <<>>]

AllGenerics == [params : ParamLists(MaxGenerics), where_clause : WhereClauses]

\* An unnamed (positional) field of a tuple struct.
TupleFields ==
    { <<>>, << [ident |-> "", ty |-> "i32", vis |-> "pub", attrs |-> <<>>] >> }

\* syn::Data: a struct with named, unnamed or no fields, an enum or a union.
NamedData(fs) == [kind |-> "struct", fields_kind |-> "named", fields |-> fs]

OtherData ==
    { [kind |-> "struct", fields_kind |-> "unnamed", fields |-> fs] : fs \in TupleFields }
    \cup { [kind |-> "struct", fields_kind |-> "unit", fields |-> <<>>],
           [kind |-> "enum", fields_kind |-> "none", fields |-> <<>>],
           [kind |-> "union", fields_kind |-> "none", fields |-> <<>>] }

\* syn::DeriveInput
DeriveInput(g, d) == [ident |-> "Test", generics |-> g, data |-> d]

\* The declarations the macro is run on: every list of named fields within
\* the bounds under no or one generic parameter, ...
IsFieldRichInput(in) ==
    \E g \in {NoGenerics, GenericsOfT} : \E m \in 0..MaxFields :
        \E s \in SeqsUpTo(AttrChoices, MaxAttrs) : \E o \in Owners(m, Len(s)) :
            \E v \in [1..m -> Visibilities] :
                in = DeriveInput(g, NamedData(FieldList(m, v, s, o)))

\* ... every generic parameter list within the bounds over the lists of at
\* most one named field without attributes, ...
IsGenericsRichInput(in) ==
    \E g \in AllGenerics : \E m \in 0..1 : \E v \in [1..m -> Visibilities] :
        in = DeriveInput(g, NamedData(FieldList(m, v, <<>>, <<>>)))

\* ... and the declarations that are no struct with named fields.
IsOtherInput(in) ==
    \E g \in {NoGenerics, GenericsOfT} : \E d \in OtherData :
        in = DeriveInput(g, d)

\* ---------------------------------------------------- syn / quote helpers

\* Generics::split_for_impl, second component: `<`, the parameters'
\* identifiers alone, lifetimes first, comma separated, `>`; nothing for no
\* parameters.
TypeGenericsTokens(generics) ==
    LET ps == generics.params
        lts == SelectSeq(ps, LAMBDA p : p.kind = "lifetime")
        rest == SelectSeq(ps, LAMBDA p : p.kind # "lifetime")
        ordered == lts \o rest
    IN  IF ps = <<>> THEN <<>>
        ELSE <<"<">>
             \o Separated([i \in DOMAIN ordered |-> <<ordered[i].ident>>], ",")
             \o <<">">>

\* Generics::split_for_impl, first component, as quote! prints it: as the
\* second, each parameter with its bounds (a const with its type) and
\* without its default.
ImplGenericsParam(p) ==
    IF p.kind = "const" THEN <<"const", p.ident, ":">> \o p.colon
    ELSE IF p.colon = <<>> THEN <<p.ident>>
    ELSE <<p.ident, ":">> \o p.colon

\* Mutant: the impl block's parameters printed as the type's arguments are,
\* without their bounds.
ImplGenericsTokens_IdentsOnly(generics) == TypeGenericsTokens(generics)

ImplGenericsTokens(generics) ==
    LET ps == generics.params
        lts == SelectSeq(ps, LAMBDA p : p.kind = "lifetime")
        rest == SelectSeq(ps, LAMBDA p : p.kind # "lifetime")
        ordered == lts \o rest
    IN  IF ps = <<>> THEN <<>>
        ELSE <<"<">>
             \o Separated([i \in DOMAIN ordered |-> ImplGenericsParam(ordered[i])], ",")
             \o <<">">>

\* Generics::split_for_impl, third component: the where clause, if any.
WhereClauseTokens(generics) == generics.where_clause

\* The expression parser behind Attribute::parse_args::<Expr>, on the
\* expression language  Expr ::= Literal ( "+" Literal )* : the tokens parse,
\* all of them consumed, into the list of operands, or the parse fails.
NoExpr == [ok |-> FALSE, operands |-> <<>>]

\* Mutant: a parser that accepts a dangling trailing operator and drops it.
ParseExpr_DropsTrailingOperator(tokens) ==
    LET n == Len(tokens)
        m == IF n % 2 = 0 /\ n > 0 THEN n - 1 ELSE n
        wellFormed ==
            /\ m % 2 = 1
            /\ \A i \in 1..n : IF i % 2 = 1 THEN tokens[i] \in Literals
                                            ELSE tokens[i] = "+"
    IN  IF wellFormed
        THEN [ok |-> TRUE, operands |-> [k \in 1..((m + 1) \div 2) |-> tokens[2 * k - 1]]]
        ELSE NoExpr

ParseExpr(tokens) ==
    LET n == Len(tokens)
        wellFormed ==
            /\ n % 2 = 1
            /\ \A i \in 1..n : IF i % 2 = 1 THEN tokens[i] \in Literals
                                            ELSE tokens[i] = "+"
    IN  IF wellFormed
        THEN [ok |-> TRUE, operands |-> [k \in 1..((n + 1) \div 2) |-> tokens[2 * k - 1]]]
        ELSE NoExpr

\* Mutant: only the first operand of the expression is printed.
ExprTokens_FirstOperandOnly(expr) == <<expr.operands[1]>>

\* quote! { #expr }: the tokens of a parsed expression.
ExprTokens(expr) ==
    Separated([k \in DOMAIN expr.operands |-> <<expr.operands[k]>>], "+")

\* The tokens of `Default::default()`.
DefaultCall == <<"Default", "::", "default", "()">>

\* Option<TokenStream2>
None == [some |-> FALSE, tokens |-> <<>>]
Some(tokens) == [some |-> TRUE, tokens |-> tokens]

RECURSIVE ExtractFrom(_, _)
\* The loop of extract_default_value from attribute i on.
ExtractFrom(attrs, i) ==
    IF i > Len(attrs) THEN None
    ELSE IF attrs[i].path = "default" /\ ParseExpr(attrs[i].args).ok
         THEN Some(ExprTokens(ParseExpr(attrs[i].args)))
         ELSE ExtractFrom(attrs, i + 1)

RECURSIVE ExtractFirstDefault(_, _)
ExtractFirstDefault(attrs, i) ==
    IF i > Len(attrs) THEN None
    ELSE IF attrs[i].path = "default"
         THEN IF ParseExpr(attrs[i].args).ok
              THEN Some(ExprTokens(ParseExpr(attrs[i].args)))
              ELSE None
         ELSE ExtractFirstDefault(attrs, i + 1)

\* Mutant: the loop ends at the first `default` attribute, whether its
\* argument parses or not.
extract_default_value_FirstDefaultOnly(attrs) == ExtractFirstDefault(attrs, 1)

RECURSIVE ExtractAnyPath(_, _)
ExtractAnyPath(attrs, i) ==
    IF i > Len(attrs) THEN None
    ELSE IF ParseExpr(attrs[i].args).ok
         THEN Some(ExprTokens(ParseExpr(attrs[i].args)))
         ELSE ExtractAnyPath(attrs, i + 1)

\* Mutant: the attribute's path is not compared with `default`.
extract_default_value_AnyPath(attrs) == ExtractAnyPath(attrs, 1)

extract_default_value(attrs) == ExtractFrom(attrs, 1)

\* ------------------------------------------------- derive_impl_new, by block

IsPublic(f) == f.vis = "pub"

\* Mutant: every field with a visibility keyword counts as public.
PubFields_RestrictedToo(fs) == SelectSeq(fs, LAMBDA f : f.vis # "inherited")

\* `fields.iter().filter(|f| matches!(f.vis, Visibility::Public(_)))`
PubFields(fs) == SelectSeq(fs, IsPublic)

\* Mutant: only the fields without a visibility keyword are non-public.
NonPubFields_PrivateOnly(fs) == SelectSeq(fs, LAMBDA f : f.vis = "inherited")

\* Mutant: a field with a usable `default` annotation is default-initialized
\* whatever its visibility.
NonPubFields_OrDefaulted(fs) ==
    SelectSeq(fs, LAMBDA f : ~IsPublic(f) \/ extract_default_value(f.attrs).some)

\* `fields.iter().filter(|f| !matches!(f.vis, Visibility::Public(_)))`
NonPubFields(fs) == SelectSeq(fs, LAMBDA f : ~IsPublic(f))

PubFieldNames(pubs) == [i \in DOMAIN pubs |-> pubs[i].ident]

PubFieldTypes(pubs) == [i \in DOMAIN pubs |-> pubs[i].ty]

\* The closure mapped over non_pub_fields: `name: expr` with the expression
\* of #[default(expr)] if extract_default_value finds one, `name:
\* Default::default()` otherwise.
NonPubFieldInitialization(f) ==
    LET d == extract_default_value(f.attrs)
    IN  IF d.some THEN <<f.ident, ":">> \o d.tokens
        ELSE <<f.ident, ":">> \o DefaultCall

NonPubFieldInitializations(nonpubs) ==
    [i \in DOMAIN nonpubs |-> NonPubFieldInitialization(nonpubs[i])]

\* `#(#pub_field_names: #pub_field_types),*`
ParamTokens(names, types) ==
    Separated([i \in DOMAIN names |-> <<names[i], ":", types[i]>>], ",")

\* `#(#pub_field_names),*, #(#non_pub_field_initializations),*`: the two
\* repetitions with the template's own comma between them.
BodyTokens(names, inits) ==
    Separated([i \in DOMAIN names |-> <<names[i]>>], ",")
    \o <<",">>
    \o Separated(inits, ",")

\* The expansion of the quote! template, one component per place the
\* template interpolates: impl <impl_generics> <name> <ty_generics>
\* <where_clause> { #[must_use] pub fn new(<params>) -> Self { Self { <body> } } }
NoExpansion ==
    [emitted |-> FALSE, impl_generics |-> <<>>, name |-> "", ty_generics |-> <<>>,
     where_clause |-> <<>>, params |-> <<>>, body |-> <<>>]

Expansion(ig, nm, tg, wc, names, types, inits) ==
    [emitted |-> TRUE, impl_generics |-> ig, name |-> nm, ty_generics |-> tg,
     where_clause |-> wc, params |-> ParamTokens(names, types),
     body |-> BodyTokens(names, inits)]

\* The whole of derive_impl_new on a struct with named fields.
DeriveOutput(in) ==
    LET fs == in.data.fields
        pubs == PubFields(fs)
    IN  Expansion(ImplGenericsTokens(in.generics), in.ident,
                  TypeGenericsTokens(in.generics), WhereClauseTokens(in.generics),
                  PubFieldNames(pubs), PubFieldTypes(pubs),
                  NonPubFieldInitializations(NonPubFields(fs)))

\* The panic messages (the macro's name is written between backquotes there).
PanicNotNamed == "ImplNew macro can only be used on structs with named fields"
PanicNotStruct == "ImplNew macro can only be used on structs"

\* ------------------------------------------------------------------ state

VARIABLES
    input,          \* the parsed DeriveInput
    pc,             \* the block of derive_impl_new to run next, or the outcome
    name,           \* input.ident
    impl_generics, ty_generics, where_clause,   \* generics.split_for_impl()
    fields,         \* the named fields
    pub_fields, non_pub_fields,
    pub_field_names, pub_field_types,
    non_pub_field_initializations,
    expanded,       \* the token stream returned to the compiler
    diagnostic      \* the panic message, "" if none

vars == <<input, pc, name, impl_generics, ty_generics, where_clause, fields,
          pub_fields, non_pub_fields, pub_field_names, pub_field_types,
          non_pub_field_initializations, expanded, diagnostic>>

Init ==
    /\ \/ IsFieldRichInput(input)
       \/ IsGenericsRichInput(input)
       \/ IsOtherInput(input)
    /\ pc = "split_generics"
    /\ name = ""
    /\ impl_generics = <<>>
    /\ ty_generics = <<>>
    /\ where_clause = <<>>
    /\ fields = <<>>
    /\ pub_fields = <<>>
    /\ non_pub_fields = <<>>
    /\ pub_field_names = <<>>
    /\ pub_field_types = <<>>
    /\ non_pub_field_initializations = <<>>
    /\ expanded = NoExpansion
    /\ diagnostic = ""

\* lines 89-91
SplitGenerics ==
    /\ pc = "split_generics"
    /\ name' = input.ident
    /\ impl_generics' = ImplGenericsTokens(input.generics)
    /\ ty_generics' = TypeGenericsTokens(input.generics)
    /\ where_clause' = WhereClauseTokens(input.generics)
    /\ pc' = "extract_fields"
    /\ UNCHANGED <<input, fields, pub_fields, non_pub_fields, pub_field_names,
                   pub_field_types, non_pub_field_initializations, expanded,
                   diagnostic>>

\* Mutant: the fields of any struct are taken, named or not.
ExtractNamedFields_AnyStruct ==
    /\ pc = "extract_fields"
    /\ input.data.kind = "struct"
    /\ fields' = input.data.fields
    /\ pc' = "separate"
    /\ UNCHANGED <<input, name, impl_generics, ty_generics, where_clause,
                   pub_fields, non_pub_fields, pub_field_names, pub_field_types,
                   non_pub_field_initializations, expanded, diagnostic>>

\* lines 94-96: a struct with named fields
ExtractNamedFields ==
    /\ pc = "extract_fields"
    /\ input.data.kind = "struct"
    /\ input.data.fields_kind = "named"
    /\ fields' = input.data.fields
    /\ pc' = "separate"
    /\ UNCHANGED <<input, name, impl_generics, ty_generics, where_clause,
                   pub_fields, non_pub_fields, pub_field_names, pub_field_types,
                   non_pub_field_initializations, expanded, diagnostic>>

\* lines 97-99: a struct whose fields are not named
PanicOnFields ==
    /\ pc = "extract_fields"
    /\ input.data.kind = "struct"
    /\ input.data.fields_kind # "named"
    /\ diagnostic' = PanicNotNamed
    /\ pc' = "Rejected"
    /\ UNCHANGED <<input, name, impl_generics, ty_generics, where_clause, fields,
                   pub_fields, non_pub_fields, pub_field_names, pub_field_types,
                   non_pub_field_initializations, expanded>>

\* lines 100-102: not a struct
PanicOnData ==
    /\ pc = "extract_fields"
    /\ input.data.kind # "struct"
    /\ diagnostic' = PanicNotStruct
    /\ pc' = "Rejected"
    /\ UNCHANGED <<input, name, impl_generics, ty_generics, where_clause, fields,
                   pub_fields, non_pub_fields, pub_field_names, pub_field_types,
                   non_pub_field_initializations, expanded>>

\* lines 105-112
SeparateFields ==
    /\ pc = "separate"
    /\ pub_fields' = PubFields(fields)
    /\ non_pub_fields' = NonPubFields(fields)
    /\ pc' = "collect"
    /\ UNCHANGED <<input, name, impl_generics, ty_generics, where_clause, fields,
                   pub_field_names, pub_field_types,
                   non_pub_field_initializations, expanded, diagnostic>>

\* lines 115-116
CollectPublic ==
    /\ pc = "collect"
    /\ pub_field_names' = PubFieldNames(pub_fields)
    /\ pub_field_types' = PubFieldTypes(pub_fields)
    /\ pc' = "initialize"
    /\ UNCHANGED <<input, name, impl_generics, ty_generics, where_clause, fields,
                   pub_fields, non_pub_fields, non_pub_field_initializations,
                   expanded, diagnostic>>

\* lines 119-128
InitializeNonPublic ==
    /\ pc = "initialize"
    /\ non_pub_field_initializations' = NonPubFieldInitializations(non_pub_fields)
    /\ pc' = "expand"
    /\ UNCHANGED <<input, name, impl_generics, ty_generics, where_clause, fields,
                   pub_fields, non_pub_fields, pub_field_names, pub_field_types,
                   expanded, diagnostic>>

\* lines 131-146
Expand ==
    /\ pc = "expand"
    /\ expanded' = Expansion(impl_generics, name, ty_generics, where_clause,
                             pub_field_names, pub_field_types,
                             non_pub_field_initializations)
    /\ pc' = "Accepted"
    /\ UNCHANGED <<input, name, impl_generics, ty_generics, where_clause, fields,
                   pub_fields, non_pub_fields, pub_field_names, pub_field_types,
                   non_pub_field_initializations, diagnostic>>

Next ==
    \/ SplitGenerics
    \/ ExtractNamedFields
    \/ PanicOnFields
    \/ PanicOnData
    \/ SeparateFields
    \/ CollectPublic
    \/ InitializeNonPublic
    \/ Expand

Spec == Init /\ [][Next]_vars

\* ------------------------------------------- reading the emitted tokens

\* The tokens between consecutive separators: one more segment than there
\* are separators, a segment being empty where nothing stands between two
\* separators, before the first or after the last.
Segments(tokens, sep) ==
    LET at == {i \in DOMAIN tokens : tokens[i] = sep}
        pos(k) == CHOOSE i \in at : Cardinality({j \in at : j < i}) = k - 1
        n == Cardinality(at)
    IN  [k \in 1..(n + 1) |->
            SubSeq(tokens,
                   IF k = 1 THEN 1 ELSE pos(k - 1) + 1,
                   IF k = n + 1 THEN Len(tokens) ELSE pos(k) - 1)]

\* The entries of a comma separated list: its non-empty segments, in order.
Entries(tokens) == SelectSeq(Segments(tokens, ","), LAMBDA e : e # <<>>)

\* A comma separated list as the host language's grammar has it: empty, or
\* entries separated by single commas with at most a trailing comma.
WellFormedList(tokens) ==
    \/ tokens = <<>>
    \/ LET segs == Segments(tokens, ",")
       IN  \A k \in DOMAIN segs : segs[k] # <<>> \/ (k = Len(segs) /\ k > 1)

\* The entries of the constructor body that initialize the field `ident`.
InitializersOf(ident) ==
    SelectSeq(Entries(expanded.body), LAMBDA e : e[1] = ident)

\* The expression a field is initialized with: what follows `ident :`.
InitializerOf(ident) ==
    LET e == InitializersOf(ident)[1]
    IN  SubSeq(e, 3, Len(e))

\* The parameters of the constructor.
Parameters == Entries(expanded.params)

\* Tokens that form an expression of the attribute arguments' language:
\* literals and `+` alternating, a literal first and last.
IsExpression(tokens) ==
    /\ tokens # <<>>
    /\ \A i \in DOMAIN tokens : tokens[i] \in Literals \cup {"+"}
    /\ tokens[1] \in Literals /\ tokens[Len(tokens)] \in Literals
    /\ \A i \in 1..(Len(tokens) - 1) :
           (tokens[i] \in Literals) # (tokens[i + 1] \in Literals)

IsDefault(attr) == attr.path = "default"
ParsingDefault(attr) == IsDefault(attr) /\ IsExpression(attr.args)
MalformedDefault(attr) == IsDefault(attr) /\ ~IsExpression(attr.args)

DeclFields == input.data.fields
IsNamedStruct == input.data.kind = "struct" /\ input.data.fields_kind = "named"
Accepted == pc = "Accepted"
Rejected == pc = "Rejected"

PublicAt == {i \in DOMAIN DeclFields : DeclFields[i].vis = "pub"}
NonPublicAt == DOMAIN DeclFields \ PublicAt

\* The positions of field f's `default` annotations, and the first of them
\* whose argument is an expression (0 if there is none).
DefaultsAt(f) == {i \in DOMAIN f.attrs : IsDefault(f.attrs[i])}
FirstParsingAt(f) ==
    LET ok == {i \in DOMAIN f.attrs : ParsingDefault(f.attrs[i])}
    IN  IF ok = {} THEN 0 ELSE Min(ok)

\* The declaration with the attributes satisfying `drop` taken off the
\* fields satisfying `on`.
Without(in, on(_), drop(_)) ==
    [in EXCEPT !.data.fields =
        [i \in DOMAIN in.data.fields |->
            IF on(in.data.fields[i])
            THEN [in.data.fields[i] EXCEPT
                     !.attrs = SelectSeq(in.data.fields[i].attrs, LAMBDA a : ~drop(a))]
            ELSE in.data.fields[i]]]

\* ----------------------------------------------------------------- claims

\* C1: for every accepted struct the parameters of `new` are exactly the
\* `pub` fields, in declaration order, each with its own declared type; a
\* private or restricted field is never a parameter.
C1_ParametersArePublicFields ==
    Accepted =>
        /\ Len(Parameters) = Cardinality(PublicAt)
        /\ \A i \in PublicAt :
               Parameters[Cardinality({j \in PublicAt : j <= i})]
                   = <<DeclFields[i].ident, ":", DeclFields[i].ty>>
        /\ \A i \in NonPublicAt : \A k \in DOMAIN Parameters :
               Parameters[k][1] # DeclFields[i].ident

C1_Witness ==
    /\ Accepted
    /\ Len(DeclFields) = 3
    /\ DeclFields[1].vis = "pub"
    /\ DeclFields[2].vis = "pub(crate)"
    /\ DeclFields[3].vis = "pub"

\* C2: for every accepted struct the constructor body holds exactly one
\* initializer per field of the struct and no other, and a public field's
\* initializer is the parameter of the same name.
C2_EveryFieldInitializedOnce ==
    Accepted =>
        /\ Len(Entries(expanded.body)) = Len(DeclFields)
        /\ \A i \in DOMAIN DeclFields : Len(InitializersOf(DeclFields[i].ident)) = 1
        /\ \A i \in PublicAt :
               /\ InitializersOf(DeclFields[i].ident)[1] = <<DeclFields[i].ident>>
               /\ \E k \in DOMAIN Parameters : Parameters[k][1] = DeclFields[i].ident
        /\ \A i \in NonPublicAt :
               LET e == InitializersOf(DeclFields[i].ident)[1]
               IN  Len(e) > 2 /\ e[2] = ":"

C2_Witness ==
    /\ Accepted
    /\ Len(DeclFields) = 3
    /\ DeclFields[1].vis = "inherited"
    /\ DeclFields[2].vis = "pub"
    /\ DeclFields[3].vis = "pub(crate)"
    /\ DeclFields[3].attrs # <<>>

\* C3: a struct with no public field is accepted with a `new` of no
\* parameters, and the initializer list of a struct with no public field, or
\* with no non-public field, is well formed: single commas between the
\* initializers, none leading, no empty entry.
C3_InitializerListWellFormed ==
    (Accepted /\ (PublicAt = {} \/ NonPublicAt = {})) =>
        /\ PublicAt = {} => expanded.params = <<>>
        /\ WellFormedList(expanded.body)

\* C4 as stated: of several `default` annotations on a non-public field the
\* first alone decides the initializer: its expression if its argument
\* parses, Default::default() otherwise.
C4_FirstDefaultAloneDecides ==
    Accepted =>
        \A i \in NonPublicAt :
            LET f == DeclFields[i]
                first == f.attrs[Min(DefaultsAt(f))]
            IN  Cardinality(DefaultsAt(f)) > 1 =>
                    InitializerOf(f.ident)
                        = IF IsExpression(first.args) THEN first.args ELSE DefaultCall

\* C4 as amended: of several `default` annotations on a non-public field the
\* first whose argument parses as an expression decides the initializer
\* (an annotation whose argument does not parse is passed over, and no
\* annotation after the deciding one has any influence); if none parses the
\* initializer is Default::default().
C4_FirstParsingDefaultDecides ==
    Accepted =>
        \A i \in NonPublicAt :
            LET f == DeclFields[i]
            IN  Cardinality(DefaultsAt(f)) > 1 =>
                    InitializerOf(f.ident)
                        = IF FirstParsingAt(f) = 0 THEN DefaultCall
                          ELSE f.attrs[FirstParsingAt(f)].args

C4_Witness ==
    /\ Accepted
    /\ PublicAt # {}
    /\ \E i \in NonPublicAt :
           /\ Len(DeclFields[i].attrs) = 2
           /\ MalformedDefault(DeclFields[i].attrs[1])
           /\ ParsingDefault(DeclFields[i].attrs[2])

C6_NoDefaultAnnotation ==
    Accepted =>
        \A i \in NonPublicAt :
            DefaultsAt(DeclFields[i]) = {} =>
                InitializerOf(DeclFields[i].ident) = DefaultCall

C6_Witness ==
    /\ Accepted
    /\ PublicAt # {}
    /\ \E i \in NonPublicAt :
           /\ Len(DeclFields[i].attrs) = 1
           /\ DeclFields[i].attrs[1].path = "serde"

\* C7 as stated (read with the first-occurrence rule, which the statement
\* for every malformed annotation implies): a struct with named fields is
\* never rejected, and a non-public field whose first `default` annotation
\* has an argument that does not parse is initialized with
\* Default::default().
C7_MalformedDefaultGivesGenericDefault ==
    /\ IsNamedStruct => (~Rejected /\ diagnostic = "")
    /\ Accepted =>
        \A i \in NonPublicAt :
            LET f == DeclFields[i]
            IN  (DefaultsAt(f) # {} /\ MalformedDefault(f.attrs[Min(DefaultsAt(f))])) =>
                    InitializerOf(f.ident) = DefaultCall

\* C7 as amended: a `default` annotation whose argument does not parse never
\* causes rejection, and the output is exactly the output for the
\* declaration without that annotation: the field is initialized with
\* Default::default() unless another `default` annotation on it parses, and
\* then with the expression of the first one that does.
C7_MalformedDefaultAsIfAbsent ==
    /\ IsNamedStruct => (~Rejected /\ diagnostic = "")
    /\ Accepted =>
        /\ expanded = DeriveOutput(Without(input, LAMBDA f : TRUE, MalformedDefault))
        /\ \A i \in NonPublicAt :
               LET f == DeclFields[i]
               IN  (\E k \in DOMAIN f.attrs : MalformedDefault(f.attrs[k])) =>
                       InitializerOf(f.ident)
                           = IF FirstParsingAt(f) = 0 THEN DefaultCall
                             ELSE f.attrs[FirstParsingAt(f)].args

C7_Witness ==
    /\ Accepted
    /\ PublicAt # {}
    /\ \E i \in NonPublicAt :
           /\ Len(DeclFields[i].attrs) = 1
           /\ MalformedDefault(DeclFields[i].attrs[1])
           /\ InitializerOf(DeclFields[i].ident) = DefaultCall

\* C8: an invocation ends Rejected (a diagnostic, nothing emitted) exactly
\* when the declaration is no struct with named fields, and Accepted (a
\* constructor emitted, no diagnostic) for every struct with named fields;
\* it ends nowhere else, and nothing is emitted before acceptance.
C8_AcceptedOrRejected ==
    /\ Rejected => (~IsNamedStruct /\ diagnostic # "" /\ expanded = NoExpansion)
    /\ Accepted => (IsNamedStruct /\ diagnostic = "" /\ expanded.emitted)
    /\ ~Accepted => expanded = NoExpansion
    /\ ~(Accepted \/ Rejected) => (ENABLED Next /\ diagnostic = "")

C8_Witness ==
    /\ Rejected
    /\ input.data.kind = "struct"
    /\ input.data.fields_kind = "unnamed"
    /\ input.data.fields # <<>>

\* C9: for every accepted struct the impl block is generic over exactly the
\* declaration's generic parameters, in their order, each with its bounds,
\* under the declaration's where clause, and the type is instantiated with
\* the same parameters; without generic parameters the block has none.
C9_GenericsCopied ==
    Accepted =>
        LET ps == input.generics.params
            ig == expanded.impl_generics
            tg == expanded.ty_generics
            inner(t) == SubSeq(t, 2, Len(t) - 1)
        IN  /\ expanded.name = input.ident
            /\ expanded.where_clause = input.generics.where_clause
            /\ ps = <<>> => (ig = <<>> /\ tg = <<>>)
            /\ ps # <<>> =>
                /\ ig[1] = "<" /\ ig[Len(ig)] = ">"
                /\ tg[1] = "<" /\ tg[Len(tg)] = ">"
                /\ Len(Segments(inner(ig), ",")) = Len(ps)
                /\ Len(Segments(inner(tg), ",")) = Len(ps)
                /\ \A k \in DOMAIN ps :
                       /\ Segments(inner(tg), ",")[k] = <<ps[k].ident>>
                       /\ Segments(inner(ig), ",")[k]
                              = (IF ps[k].kind = "const" THEN <<"const">> ELSE <<>>)
                                \o <<ps[k].ident>>
                                \o (IF ps[k].colon = <<>> THEN <<>>
                                    ELSE <<":">> \o ps[k].colon)

C9_Witness ==
    /\ Accepted
    /\ Len(input.generics.params) = 2
    /\ input.generics.params[1].kind = "lifetime"
    /\ input.generics.params[2].colon = <<"Clone">>
    /\ input.generics.where_clause # <<>>

\* C10: a `default` annotation on a public field changes nothing: the field
\* is a parameter, is initialized from that parameter, and the output is the
\* output for the declaration with the annotation removed.
C10_DefaultOnPublicFieldIgnored ==
    Accepted =>
        /\ expanded = DeriveOutput(Without(input, IsPublic, IsDefault))
        /\ \A i \in PublicAt :
               DefaultsAt(DeclFields[i]) # {} =>
                   /\ InitializersOf(DeclFields[i].ident) = << <<DeclFields[i].ident>> >>
                   /\ \E k \in DOMAIN Parameters :
                          Parameters[k] = <<DeclFields[i].ident, ":", DeclFields[i].ty>>

C10_Witness ==
    /\ Accepted
    /\ \E i \in PublicAt :
           /\ Len(DeclFields[i].attrs) = 1
           /\ ParsingDefault(DeclFields[i].attrs[1])

====
